---- MODULE Spec2Model ----
(***************************************************************************)
(* Category structure analyzer (analyze_categories.py): normalisation of   *)
(* raw category records, reconstruction of the category forest, role       *)
(* classification and statistics.                                          *)
(*                                                                         *)
(* Python values are records [t, v]: t is the type tag and v a sequence of *)
(* integers (the integer itself, the character codes of a string, the      *)
(* integer elements of a list).  A nested-mapping name is the tag "dict";  *)
(* its keys are the field nm of the raw record.                            *)
(***************************************************************************)
EXTENDS Integers, Sequences, FiniteSets, TLC

\* ------------------------------------------------------------------ bounds
\* number of categories of the hierarchy inputs
MaxCats == 3
\* number of raw records of the field-shape inputs
MaxRecs == 2
\* number of categories of the inputs of the termination check
LiveCats == 2
\* number of search terms the fetcher goes through
MaxTerms == 2
\* number of category ids the service knows
MaxIds == 2
\* largest token balance of the service account
MaxTokens == 8

\* ----------------------------------------------------------- Python values
Absent == [t |-> "absent", v |-> <<>>]
None == [t |-> "none", v |-> <<>>]
PyInt(n) == [t |-> "int", v |-> <<n>>]
PyStr(s) == [t |-> "str", v |-> s]
PyList(s) == [t |-> "list", v |-> s]
PyDict == [t |-> "dict", v |-> <<>>]
PyBool(b) == [t |-> "bool", v |-> <<IF b THEN 1 ELSE 0>>]

\* bool(x)
Truthy(x) ==
    CASE x.t \in {"absent", "none"} -> FALSE
      [] x.t \in {"int", "bool"} -> x.v[1] # 0
      [] x.t \in {"str", "list"} -> Len(x.v) > 0
      [] OTHER -> TRUE

\* d.get(k): a missing key reads as None
Get(x) == IF x.t = "absent" THEN None ELSE x

\* d.get(k, default)
GetOr(x, default) == IF x.t = "absent" THEN default ELSE x

\* a or b
Or(a, b) == IF Truthy(a) THEN a ELSE b

\* hash(x) is defined: lists and dicts cannot be dict keys or set members
Hashable(x) == x.t \notin {"list", "dict"}

RECURSIVE Digits(_)
\* decimal digits of a natural number, as character codes
Digits(n) == IF n < 10 THEN <<48 + n>> ELSE Digits(n \div 10) \o <<48 + (n % 10)>>

\* str(x) inside an f-string, for the id types of the inputs
StrOf(x) ==
    CASE x.t = "int" -> IF x.v[1] < 0 THEN <<45>> \o Digits(0 - x.v[1]) ELSE Digits(x.v[1])
      [] x.t = "str" -> x.v
      [] OTHER -> <<>>

IsDigit(c) == c >= 48 /\ c <= 57

RECURSIVE DigitsValue(_)
DigitsValue(s) ==
    IF Len(s) = 0 THEN 0
    ELSE 10 * DigitsValue(SubSeq(s, 1, Len(s) - 1)) + (s[Len(s)] - 48)

\* int(x) raises ValueError or TypeError
IntRaises(x) ==
    CASE x.t \in {"int", "bool"} -> FALSE
      [] x.t = "str" ->
            LET body == IF Len(x.v) > 0 /\ x.v[1] \in {43, 45} THEN Tail(x.v) ELSE x.v
            IN  Len(body) = 0 \/ \E i \in 1..Len(body) : ~IsDigit(body[i])
      [] OTHER -> TRUE

\* int(x), where it does not raise
IntOf(x) ==
    CASE x.t \in {"int", "bool"} -> x.v[1]
      [] x.t = "str" ->
            LET neg == Len(x.v) > 0 /\ x.v[1] = 45
                body == IF Len(x.v) > 0 /\ x.v[1] \in {43, 45} THEN Tail(x.v) ELSE x.v
            IN  IF neg THEN 0 - DigitsValue(body) ELSE DigitsValue(body)
      [] OTHER -> 0

\* "Category "
CategoryPrefix == <<67, 97, 116, 101, 103, 111, 114, 121, 32>>

\* ------------------------------------------------- normalize_category_data
NoDict ==
    [name |-> Absent, contextFreeName |-> Absent, catId |-> Absent, parent |-> Absent,
     children |-> Absent, productCount |-> Absent, isBrowseNode |-> Absent]

\* a raw record with a plain (non-mapping) name
Flat(id, name, parent, children, count, depth) ==
    [category_id |-> id, name |-> name, nm |-> NoDict, parent_id |-> parent,
     children_ids |-> children, product_count |-> count, depth |-> depth]

\* f'Category {cat_id}'
DefaultName(cat) == PyStr(CategoryPrefix \o StrOf(cat.category_id))

\* variant: contextFreeName is tried before name
NameOf_ContextFirst(cat) ==
    LET name == Get(cat.name)
    IN  IF name.t = "dict"
        THEN Or(Or(Or(Get(cat.nm.contextFreeName), Get(cat.nm.name)), Get(cat.nm.catId)),
                DefaultName(cat))
        ELSE IF name.t # "str" THEN DefaultName(cat) ELSE name

\* name, after the isinstance tests of the loop body
NameOf(cat) ==
    LET name == Get(cat.name)
    IN  IF name.t = "dict"
        THEN Or(Or(Or(Get(cat.nm.name), Get(cat.nm.contextFreeName)), Get(cat.nm.catId)),
                DefaultName(cat))
        ELSE IF name.t # "str" THEN DefaultName(cat) ELSE name

\* variant: the parent key of the nested mapping is preferred
ParentOf_NestedFirst(cat) ==
    LET parent_id == Get(cat.parent_id)
    IN  IF cat.name.t = "dict" /\ Truthy(Get(cat.nm.parent)) THEN Get(cat.nm.parent)
        ELSE parent_id

\* parent_id, after the fallback to the nested mapping
ParentOf(cat) ==
    LET parent_id == Get(cat.parent_id)
    IN  IF ~Truthy(parent_id) /\ cat.name.t = "dict" THEN Get(cat.nm.parent) ELSE parent_id

\* variant: the nested children are used whatever the top-level field holds
ChildrenRawOf_NestedFirst(cat) ==
    LET children_ids == GetOr(cat.children_ids, PyList(<<>>))
        children_from_dict == Get(cat.nm.children)
    IN  IF cat.name.t = "dict" /\ Truthy(children_from_dict)
        THEN IF children_from_dict.t = "list" THEN children_from_dict
             ELSE PyList(<<children_from_dict.v[1]>>)
        ELSE children_ids

\* children_ids before the final isinstance check
ChildrenRawOf(cat) ==
    LET children_ids == GetOr(cat.children_ids, PyList(<<>>))
        children_from_dict == Get(cat.nm.children)
    IN  IF ~Truthy(children_ids) /\ cat.name.t = "dict" /\ Truthy(children_from_dict)
        THEN IF children_from_dict.t = "list" THEN children_from_dict
             ELSE PyList(<<children_from_dict.v[1]>>)
        ELSE children_ids

ChildrenOf(cat) ==
    LET children_ids == ChildrenRawOf(cat)
    IN  IF children_ids.t = "list" THEN children_ids ELSE PyList(<<>>)

\* product_count before int()
CountRawOf(cat) ==
    LET product_count == GetOr(cat.product_count, PyInt(0))
    IN  IF ~Truthy(product_count) /\ cat.name.t = "dict"
        THEN GetOr(cat.nm.productCount, PyInt(0))
        ELSE product_count

CountOf(cat) ==
    LET product_count == CountRawOf(cat)
    IN  IF Truthy(product_count) THEN PyInt(IntOf(product_count)) ELSE PyInt(0)

BrowseOf(cat) ==
    IF cat.name.t = "dict" THEN GetOr(cat.nm.isBrowseNode, PyBool(FALSE)) ELSE PyBool(FALSE)

\* the canonical record built by one pass of the loop body
CanonOf(cat) ==
    [category_id |-> cat.category_id,
     name |-> NameOf(cat),
     parent_id |-> ParentOf(cat),
     children_ids |-> ChildrenOf(cat),
     product_count |-> CountOf(cat),
     depth |-> GetOr(cat.depth, PyInt(0)),
     is_browse_node |-> BrowseOf(cat)]

\* variant: only a missing id is skipped (if cat_id is None)
Skipped_NoneOnly(cat) == Get(cat.category_id).t = "none"

\* the record is skipped: if not cat_id: continue
Skipped(cat) == ~Truthy(Get(cat.category_id))

\* the loop body raises: int() of a value that is no number, or an unhashable key
NormRaises(cat) ==
    /\ ~Skipped(cat)
    /\ \/ Truthy(CountRawOf(cat)) /\ IntRaises(CountRawOf(cat))
       \/ ~Hashable(cat.category_id)

\* A dict is the sequence of its items [key, val] in insertion order.
\* index of key k in the dict m (0 when absent)
IndexOf(m, k) ==
    IF \E i \in 1..Len(m) : m[i].key = k
    THEN CHOOSE i \in 1..Len(m) : m[i].key = k
    ELSE 0

\* variant: m.setdefault(k, rec), the first record of a key is kept
Put_KeepFirst(m, k, rec) ==
    IF \E i \in 1..Len(m) : m[i].key = k THEN m ELSE Append(m, [key |-> k, val |-> rec])

\* m[k] = rec: a new key is appended, an existing key keeps its position
Put(m, k, rec) ==
    LET i == IndexOf(m, k)
    IN  IF i = 0 THEN Append(m, [key |-> k, val |-> rec]) ELSE [m EXCEPT ![i].val = rec]

RECURSIVE NormalizeFrom(_, _, _)
\* the loop over the raw records, from record i on, with normalized = m
NormalizeFrom(cats, i, m) ==
    IF i > Len(cats) THEN m
    ELSE IF Skipped(cats[i]) THEN NormalizeFrom(cats, i + 1, m)
    ELSE NormalizeFrom(cats, i + 1, Put(m, cats[i].category_id, CanonOf(cats[i])))

normalize_category_data(cats) == NormalizeFrom(cats, 1, <<>>)

\* the loop raises at the first record whose body raises
NormalizeRaises(cats) == \E i \in 1..Len(cats) : NormRaises(cats[i])

\* --------------------------------------------------- classify_category_type
Keys(m) == {m[i].key : i \in 1..Len(m)}

\* parent_id not in cat_dict raises TypeError
ParentRaises(cat) == Truthy(cat.parent_id) /\ ~Hashable(cat.parent_id)

\* variant: a fourth label for the categories without children
classify_Leaf(cat, cat_dict) ==
    IF ~Truthy(cat.parent_id) \/ cat.parent_id \notin {cat_dict[i].key : i \in 1..Len(cat_dict)}
    THEN "Root Category"
    ELSE IF Len(cat.children_ids.v) > 0 THEN "Product Group"
    ELSE "Leaf"

\* variant: the children test comes before the root test
classify_ChildrenFirst(cat, cat_dict) ==
    IF Len(cat.children_ids.v) > 0 THEN "Product Group"
    ELSE IF ~Truthy(cat.parent_id) \/ cat.parent_id \notin {cat_dict[i].key : i \in 1..Len(cat_dict)}
    THEN "Root Category"
    ELSE "Sub-category"

classify_category_type(cat, cat_dict) ==
    LET parent_id == cat.parent_id
        has_children == Len(cat.children_ids.v) > 0
    IN  IF ~Truthy(parent_id) \/ parent_id \notin Keys(cat_dict) THEN "Root Category"
        ELSE IF has_children THEN "Product Group"
        ELSE "Sub-category"

\* ------------------------------------------------------ build_category_tree
\* keys of cat_dict = {cat['category_id']: cat for cat in categories.values()}
CatDictKeys(m) == {m[i].val.category_id : i \in 1..Len(m)}

\* variant: only a category without parent_id is a root
IsRootCat_NoDangling(cat, m) == ~Truthy(cat.parent_id)

\* variant: a category that names itself as parent is a root as well
IsRootCat_SelfParent(cat, m) ==
    \/ ~Truthy(cat.parent_id)
    \/ cat.parent_id \notin CatDictKeys(m)
    \/ cat.parent_id = cat.category_id

\* the first loop's test: no parent, or a parent that is not in the data
IsRootCat(cat, m) == ~Truthy(cat.parent_id) \/ cat.parent_id \notin CatDictKeys(m)

RECURSIVE RootsFrom(_, _, _, _)
\* root_categories after the first loop, run from item i on with the roots
\* and the processed set found so far
RootsFrom(m, i, roots, processed) ==
    IF i > Len(m) THEN roots
    ELSE IF IsRootCat(m[i].val, m) /\ m[i].key \notin processed
         THEN RootsFrom(m, i + 1, Append(roots, m[i].key), processed \cup {m[i].key})
    ELSE RootsFrom(m, i + 1, roots, processed)

RECURSIVE ChildrenMapFrom_AnyParent(_, _, _)
RECURSIVE ChildrenMapFrom(_, _, _)
\* children_map[p]: the ids whose resolvable parent is p, in iteration order
ChildrenMapFrom_AnyParent(m, i, p) ==
    IF i > Len(m) THEN <<>>
    ELSE IF ~IsRootCat(m[i].val, m)
         THEN <<m[i].key>> \o ChildrenMapFrom_AnyParent(m, i + 1, p)
    ELSE ChildrenMapFrom_AnyParent(m, i + 1, p)

ChildrenMapFrom(m, i, p) ==
    IF i > Len(m) THEN <<>>
    ELSE IF ~IsRootCat(m[i].val, m) /\ m[i].val.parent_id = p
         THEN <<m[i].key>> \o ChildrenMapFrom(m, i + 1, p)
    ELSE ChildrenMapFrom(m, i + 1, p)

Range(s) == {s[i] : i \in 1..Len(s)}

\* variant: only the declared children are followed
AllChildren_DeclaredOnly(cat_id, cat, cmap) ==
    {PyInt(c) : c \in Range(cat.children_ids.v)}

\* set(children_ids + children_map.get(cat_id, []))
AllChildren(cat_id, cat, cmap) ==
    {PyInt(c) : c \in Range(cat.children_ids.v)}
        \cup (IF cat_id \in DOMAIN cmap THEN Range(cmap[cat_id]) ELSE {})

\* variant: one guard set shared by every top-level call
FreshVisited_Shared(vis) == vis

\* `if visited is None: visited = set()` of a top-level build_node(cat_id)
FreshVisited(vis) == {}

\* categories.get(cat_id), for a key of the dict
Lookup(m, k) == m[IndexOf(m, k)].val

\* variant: the node carries the depth of the canonical record
NewNode_SourceDepth(cat_id, cat, level) ==
    [category_id |-> cat_id, name |-> cat.name, product_count |-> cat.product_count,
     depth |-> IF cat.depth.t = "int" THEN cat.depth.v[1] ELSE level,
     is_browse_node |-> cat.is_browse_node, children |-> <<>>]

\* the node dict of build_node; children holds positions in the node arena
NewNode(cat_id, cat, level) ==
    [category_id |-> cat_id, name |-> cat.name, product_count |-> cat.product_count,
     depth |-> level, is_browse_node |-> cat.is_browse_node, children |-> <<>>]

\* if cat_id in visited: return None
AlreadyVisited(cat_id, vis) == cat_id \in vis

\* variant: the id is not recorded
Visit_Forget(vis, cat_id) == vis

\* variant: the set is reset to the current id (a per-call set)
Visit_Reset(vis, cat_id) == {cat_id}

\* visited.add(cat_id)
Visit(vis, cat_id) == vis \cup {cat_id}

\* the test before the recursive call
CallGuard(child_id, m, vis) == child_id \in Keys(m) /\ child_id \notin vis

\* Depth of build_node calls at which the interpreter raises RecursionError:
\* the interpreter's limit, scaled to lie above every chain the inputs can form.
RecursionLimit == MaxCats + MaxRecs + 1

\* ------------------------------------------------------- analyze_categories
\* variant: max_depth starts below every depth
EmptyStats_NoDepth ==
    [total_categories |-> 0, root_categories |-> 0, sub_categories |-> 0,
     product_groups |-> 0, categories_with_products |-> 0, total_products |-> 0,
     max_depth |-> 0 - 1, category_types |-> <<>>]

\* stats = {...}, before total_categories is filled in
EmptyStats ==
    [total_categories |-> 0, root_categories |-> 0, sub_categories |-> 0,
     product_groups |-> 0, categories_with_products |-> 0, total_products |-> 0,
     max_depth |-> 0, category_types |-> <<>>]

\* variant: a category with no products is counted as having products
StatsStep_CountEmpty(s, cat_id, cat, cat_dict) ==
    LET cat_type == classify_category_type(cat, cat_dict)
        pc == cat.product_count.v[1]
        d == cat.depth.v[1]
    IN  [s EXCEPT
            !.category_types = Put(@, cat_id, cat_type),
            !.root_categories = IF cat_type = "Root Category" THEN @ + 1 ELSE @,
            !.sub_categories = IF cat_type = "Sub-category" THEN @ + 1 ELSE @,
            !.product_groups = IF cat_type = "Product Group" THEN @ + 1 ELSE @,
            !.categories_with_products = IF pc >= 0 THEN @ + 1 ELSE @,
            !.total_products = IF pc > 0 THEN @ + pc ELSE @,
            !.max_depth = IF d > @ THEN d ELSE @]

\* variant: max_depth is the depth of the last record
StatsStep_LastDepth(s, cat_id, cat, cat_dict) ==
    LET cat_type == classify_category_type(cat, cat_dict)
        pc == cat.product_count.v[1]
        d == cat.depth.v[1]
    IN  [s EXCEPT
            !.category_types = Put(@, cat_id, cat_type),
            !.root_categories = IF cat_type = "Root Category" THEN @ + 1 ELSE @,
            !.sub_categories = IF cat_type = "Sub-category" THEN @ + 1 ELSE @,
            !.product_groups = IF cat_type = "Product Group" THEN @ + 1 ELSE @,
            !.categories_with_products = IF pc > 0 THEN @ + 1 ELSE @,
            !.total_products = IF pc > 0 THEN @ + pc ELSE @,
            !.max_depth = d]

\* variant: the statistics dict outlives the call and is filled again
FreshStats_Reused(prev) == prev

\* `stats = {...}`: every call starts from a new dict, whatever an earlier
\* call returned
FreshStats(prev) == EmptyStats

\* one pass of the statistics loop
StatsStep(s, cat_id, cat, cat_dict) ==
    LET cat_type == classify_category_type(cat, cat_dict)
        pc == cat.product_count.v[1]
        d == cat.depth.v[1]
    IN  [s EXCEPT
            !.category_types = Put(@, cat_id, cat_type),
            !.root_categories = IF cat_type = "Root Category" THEN @ + 1 ELSE @,
            !.sub_categories = IF cat_type = "Sub-category" THEN @ + 1 ELSE @,
            !.product_groups = IF cat_type = "Product Group" THEN @ + 1 ELSE @,
            !.categories_with_products = IF pc > 0 THEN @ + 1 ELSE @,
            !.total_products = IF pc > 0 THEN @ + pc ELSE @,
            !.max_depth = IF d > @ THEN d ELSE @]

RECURSIVE ForestIdsOf(_, _)
\* the keys of m that a traversal from the ids S reaches
ForestIdsOf(m, S) ==
    LET T == S \cup {k \in Keys(m) : \E x \in S :
                        \/ k \in {PyInt(c) : c \in Range(Lookup(m, x).children_ids.v)}
                        \/ Lookup(m, k).parent_id = x}
    IN  IF T = S THEN S ELSE ForestIdsOf(m, T)

RECURSIVE StatsFrom_InForest(_, _, _)
\* variant: only the categories that have a node in the forest are classified
StatsFrom_InForest(m, i, s) ==
    IF i > Len(m) THEN s
    ELSE IF m[i].key \in ForestIdsOf(m, Range(RootsFrom(m, 1, <<>>, {})))
         THEN StatsFrom_InForest(m, i + 1, StatsStep(s, m[i].key, m[i].val, m))
    ELSE StatsFrom_InForest(m, i + 1, s)

RECURSIVE StatsFrom(_, _, _)
\* for cat_id, cat in cat_dict.items(), from item i on
StatsFrom(m, i, s) ==
    IF i > Len(m) THEN s ELSE StatsFrom(m, i + 1, StatsStep(s, m[i].key, m[i].val, m))

\* depth > max_depth raises TypeError for a depth that is no number
StatsRaises(m) == \E i \in 1..Len(m) : m[i].val.depth.t \notin {"int", "bool"}

\* ------------------------------------------------------------------- state
VARIABLES
    raw,              \* the raw records handed to analyze_categories
    phase,            \* position in analyze_categories
    normalized,       \* the canonical map, in insertion order
    root_categories,  \* ids of the roots, in order
    children_map,     \* parent id -> ids of its implied children
    rootIdx,          \* position of the final loop in root_categories
    nodes,            \* arena of the node dicts created by build_node
    tree,             \* the forest: arena positions of the appended roots
    visited,          \* the visited set of the current root's build_node calls
    stack,            \* the active build_node calls
    stats,            \* the statistics
    run,              \* which call of analyze_categories on raw this is
    first,            \* the statistics the first call returned
    \* fetch_all_categories.py
    tokens,              \* api.tokens_left
    catalog,             \* what search_for_categories answers for each term
    progress_file,       \* data/fetch_progress.json
    json_file,           \* data/amazon_categories.json
    csv_file,            \* data/amazon_categories.csv
    fpc,                 \* position in main
    batch_size,          \* args.batch_size
    progress,            \* the progress dict of the run
    remaining_terms,     \* the search terms of the run
    term_i,              \* position of the search loop in remaining_terms
    new_categories,      \* the dict of newly found categories, in insertion order
    detail_i,            \* position of the detail loop in category_list
    detailed_categories, \* the categories the detail loop has appended
    returned,            \* what fetch_categories_by_search_terms returned
    outcome,             \* the closing message of main
    \* the renderers of analyze_categories.py
    rendered,            \* which renderers main has called
    lines,               \* the lines of print_tree_text
    html,                \* the document of create_html_tree
    \* category_utils.py
    query                \* the last call of a reader function and what it returned

analysisVars == <<raw, phase, normalized, root_categories, children_map, rootIdx, nodes,
                  tree, visited, stack, stats>>

callerVars == <<run, first>>

fetchVars == <<tokens, catalog, progress_file, json_file, csv_file, fpc, batch_size,
               progress, remaining_terms, term_i, new_categories, detail_i,
               detailed_categories, returned, outcome>>

renderVars == <<rendered, lines, html>>

readerVars == <<query>>

vars == <<analysisVars, callerVars, fetchVars, renderVars, readerVars>>

\* ---------------------------------------------------------- the renderers
\* "└── " and "├── "
Corner == <<9492, 9472, 9472, 32>>
Tee == <<9500, 9472, 9472, 32>>
\* "    " and "│   "
Blanks == <<32, 32, 32, 32>>
Bar == <<9474, 32, 32, 32>>

\* connector = "└── " if is_last else "├── "
Connector(is_last) == IF is_last THEN Corner ELSE Tee

\* variant: the continuation bar is drawn under a last node too
Extension_Bar(is_last) == Bar

\* extension = "    " if is_last else "│   "
Extension(is_last) == IF is_last THEN Blanks ELSE Bar

RECURSIVE Grouped(_)
\* f"{n:,}" for n >= 0
Grouped(n) ==
    IF n < 1000 THEN Digits(n)
    ELSE Grouped(n \div 1000) \o <<44>> \o
         <<48 + ((n % 1000) \div 100), 48 + ((n % 100) \div 10), 48 + (n % 10)>>

\* a line of the text output that is not a node line
TextLine(kind) ==
    [kind |-> kind, prefix |-> <<>>, connector |-> <<>>, cat_type |-> "", name |-> <<>>,
     cat_id |-> <<>>, products |-> <<>>]

\* the line print_node appends for a node
NodeLine(node, prefix, is_last) ==
    [kind |-> "node",
     prefix |-> prefix,
     connector |-> Connector(is_last),
     cat_type |-> IF node.depth = 0 THEN "Root"
                  ELSE IF Len(node.children) > 0 THEN "Group" ELSE "Sub",
     name |-> StrOf(node.name),
     cat_id |-> StrOf(node.category_id),
     products |-> IF node.product_count.v[1] > 0 THEN Grouped(node.product_count.v[1])
                  ELSE <<>>]

RECURSIVE print_node(_, _, _, _)
RECURSIVE PrintChildren(_, _, _, _, _)
\* the lines print_node(node, prefix, is_last) appends, for the node at
\* position i of the arena ns
print_node(ns, i, prefix, is_last) ==
    <<NodeLine(ns[i], prefix, is_last)>>
        \o PrintChildren(ns, ns[i].children, 1, prefix, is_last)

\* the loop over enumerate(children), from child k on
PrintChildren(ns, children, k, prefix, is_last) ==
    IF k > Len(children) THEN <<>>
    ELSE print_node(ns, children[k], prefix \o Extension(is_last), k = Len(children))
             \o PrintChildren(ns, children, k + 1, prefix, is_last)

RECURSIVE PrintRoots(_, _, _)
\* the loop over enumerate(tree), from root i on
PrintRoots(ns, t, i) ==
    IF i > Len(t) THEN <<>>
    ELSE print_node(ns, t[i], <<>>, i = Len(t))
             \o (IF i < Len(t) THEN <<TextLine("blank")>> ELSE <<>>)
             \o PrintRoots(ns, t, i + 1)

\* the header block
TextHeader ==
    <<TextLine("rule"), TextLine("title"), TextLine("rule"), TextLine("legend"),
      TextLine("blank")>>

\* the lines of print_tree_text(tree)
print_tree_text(ns, t) == TextHeader \o PrintRoots(ns, t, 1)

\* a piece of the HTML document that is not a node
HtmlPiece(kind) ==
    [kind |-> kind, cat_type |-> "", name |-> <<>>, cat_id |-> <<>>, products |-> <<>>]

\* html_node of add_node_html
HtmlNode(node, level) ==
    [kind |-> "node",
     cat_type |-> IF level = 0 THEN "root"
                  ELSE IF Len(node.children) > 0 THEN "group" ELSE "sub",
     name |-> StrOf(node.name),
     cat_id |-> StrOf(node.category_id),
     products |-> IF node.product_count.v[1] > 0 THEN Grouped(node.product_count.v[1])
                  ELSE <<>>]

RECURSIVE add_node_html(_, _, _)
RECURSIVE HtmlChildren(_, _, _, _)
\* add_node_html(node, level), for the node at position i of the arena ns
add_node_html(ns, i, level) ==
    <<HtmlNode(ns[i], level)>>
        \o (IF Len(ns[i].children) > 0
            THEN <<HtmlPiece("children")>> \o HtmlChildren(ns, ns[i].children, 1, level)
                     \o <<HtmlPiece("end children")>>
            ELSE <<>>)

\* the loop over node['children'], from child k on
HtmlChildren(ns, children, k, level) ==
    IF k > Len(children) THEN <<>>
    ELSE add_node_html(ns, children[k], level + 1)
             \o HtmlChildren(ns, children, k + 1, level)

RECURSIVE HtmlRoots(_, _, _)
\* the loop over tree, from root i on
HtmlRoots(ns, t, i) ==
    IF i > Len(t) THEN <<>>
    ELSE add_node_html(ns, t[i], 0) \o HtmlRoots(ns, t, i + 1)

\* the statistics block of the document: the seven values, in order
HtmlStats(st) ==
    <<st.total_categories, st.root_categories, st.product_groups, st.sub_categories,
      st.categories_with_products, st.total_products, st.max_depth>>

\* variant: the renderer takes the children out of the node it has drawn
NodeAfterRender_Emptied(node) == [node EXCEPT !.children = <<>>]

\* a node dict after a renderer went over it: the renderers only read
\* node['name'], node['category_id'] and node.get(...)
NodeAfterRender(node) == node

\* ------------------------------------------------ fetch_all_categories.py
\* --min-tokens and --batch-size when not given
DefaultMinTokens == 5
DefaultBatchSize == 10
BatchSizes == {1, DefaultBatchSize}

all_search_terms ==
    <<"Electronics", "Books", "Clothing", "Home", "Kitchen", "Sports", "Toys", "Beauty",
      "Health", "Automotive", "Garden", "Pet", "Baby", "Grocery", "Office", "Tools",
      "Music", "Movies", "Video Games", "Software", "Cell Phones", "Computers",
      "Appliances", "Furniture", "Jewelry", "Watches", "Shoes", "Handbags", "Luggage">>

\* the terms the search loop goes through
SearchTerms == SubSeq(all_search_terms, 1, MaxTerms)

\* the progress dict of a first run
NoProgress == [fetched_category_ids |-> {}, search_terms_completed |-> <<>>]

\* a file that does not exist
NoProgressFile == [exists |-> FALSE, data |-> NoProgress]
NoCategoriesFile == [exists |-> FALSE, total_categories |-> 0, categories |-> <<>>]
NoCsvFile == [exists |-> FALSE, rows |-> <<>>]

\* the dict read from the checkpoint file, or the default
load_progress(file) == IF file.exists THEN file.data ELSE NoProgress

\* the checkpoint file after json.dump of the progress dict
save_progress(p) == [exists |-> TRUE, data |-> p]

\* tokens_left > 0 and tokens_left < min_tokens
LowTokens(t, min_tokens) == t > 0 /\ t < min_tokens

\* [t for t in all_search_terms if t not in search_terms_completed]
RemainingTerms(p) ==
    SelectSeq(SearchTerms, LAMBDA t : t \notin {p.search_terms_completed[i] :
                                                  i \in 1..Len(p.search_terms_completed)})

\* the name the service gives category id: "A", "B", ...
NameInService(id) == <<64 + id>>

\* what category_lookup answers for category id: the parent is the id below
\* (0 for the first category), the child the id above
category_lookup(id) ==
    [catId |-> id, parent |-> id - 1, productCount |-> id,
     children |-> IF id < MaxIds THEN <<id + 1>> ELSE <<>>]

\* the entry of new_categories for a category the search found
BasicCategory(id) ==
    [category_id |-> id, name |-> NameInService(id), parent_id |-> None, domain |-> 1,
     product_count |-> 0, children_count |-> 0, children_ids |-> <<>>, depth |-> 0]

\* cat_data after update() with the answer of category_lookup
DetailedCategory(cat_data) ==
    LET category_info == category_lookup(cat_data.category_id)
    IN  [cat_data EXCEPT !.parent_id = PyInt(category_info.parent),
                         !.product_count = category_info.productCount,
                         !.children_count = Len(category_info.children),
                         !.children_ids = category_info.children]

\* the category ids held by a sequence of category dicts
IdsOf(cats) == {cats[i].category_id : i \in 1..Len(cats)}

RECURSIVE AddFound(_, _, _)
\* the loop over categories.items(): st = [new, fetched] after the items of
\* found from position i on
AddFound(found, i, st) ==
    IF i > Len(found) THEN st
    ELSE IF found[i] \notin st.fetched
         THEN AddFound(found, i + 1,
                       [new |-> Append(st.new, BasicCategory(found[i])),
                        fetched |-> st.fetched \cup {found[i]}])
    ELSE AddFound(found, i + 1, st)

\* variant: the new categories are appended unfiltered
Merged_Unfiltered(existing, categories) == existing \o categories

\* existing_categories + [cat for cat in categories if its id is not there]
Merged(existing, categories) ==
    existing \o SelectSeq(categories, LAMBDA cat : cat.category_id \notin IdsOf(existing))

\* the categories file after save_to_json(categories, filename, append)
save_to_json(categories, file, append) ==
    LET all_categories == IF append /\ file.exists THEN Merged(file.categories, categories)
                          ELSE categories
    IN  [exists |-> TRUE, total_categories |-> Len(all_categories),
         categories |-> all_categories]

RECURSIVE JoinCommas(_)
\* ','.join(map(str, ids))
JoinCommas(ids) ==
    IF ids = <<>> THEN <<>>
    ELSE IF Len(ids) = 1 THEN Digits(ids[1])
    ELSE Digits(ids[1]) \o <<44>> \o JoinCommas(Tail(ids))

\* the cell csv.DictWriter writes for a value: None as the empty string
CellOf(x) == IF x = None THEN <<>> ELSE StrOf(x)

\* the row written for a category
RowOf(cat) ==
    [category_id |-> Digits(cat.category_id), name |-> cat.name,
     parent_id |-> CellOf(cat.parent_id), domain |-> Digits(cat.domain),
     product_count |-> Digits(cat.product_count),
     children_count |-> Digits(cat.children_count),
     children_ids |-> JoinCommas(cat.children_ids), depth |-> Digits(cat.depth)]

RECURSIVE RowsOf(_, _)
\* the rows written for the categories whose id is not in existing_ids
RowsOf(categories, existing_ids) ==
    IF categories = <<>> THEN <<>>
    ELSE (IF Head(categories).category_id \notin existing_ids
          THEN <<RowOf(Head(categories))>> ELSE <<>>)
             \o RowsOf(Tail(categories), existing_ids)

\* the CSV file after save_to_csv(categories, filename, append)
save_to_csv(categories, file, append) ==
    IF categories = <<>> THEN file
    ELSE IF append /\ file.exists
    THEN [exists |-> TRUE,
          rows |-> file.rows \o
                   RowsOf(categories, {DigitsValue(file.rows[i].category_id) :
                                          i \in 1..Len(file.rows)})]
    ELSE [exists |-> TRUE, rows |-> RowsOf(categories, {})]

\* ------------------------------------------------------- category_utils.py
RECURSIVE SplitCommas(_, _)
\* s.split(','), with cur the piece read so far
SplitCommas(s, cur) ==
    IF s = <<>> THEN <<cur>>
    ELSE IF Head(s) = 44 THEN <<cur>> \o SplitCommas(Tail(s), <<>>)
    ELSE SplitCommas(Tail(s), Append(cur, Head(s)))

RECURSIVE IntsOf(_)
\* [int(x) for x in pieces if x]
IntsOf(pieces) ==
    IF pieces = <<>> THEN <<>>
    ELSE (IF Head(pieces) # <<>> THEN <<DigitsValue(Head(pieces))>> ELSE <<>>)
             \o IntsOf(Tail(pieces))

\* the dict load_categories_from_csv makes of a row: parent_id is converted
\* only when its cell is not empty, name and domain stay strings
CategoryOfRow(row) ==
    [category_id |-> DigitsValue(row.category_id),
     name |-> row.name,
     parent_id |-> IF row.parent_id # <<>> THEN PyInt(DigitsValue(row.parent_id))
                   ELSE PyStr(row.parent_id),
     domain |-> row.domain,
     product_count |-> DigitsValue(row.product_count),
     children_count |-> DigitsValue(row.children_count),
     children_ids |-> IF row.children_ids # <<>>
                      THEN IntsOf(SplitCommas(row.children_ids, <<>>)) ELSE <<>>,
     depth |-> DigitsValue(row.depth)]

load_categories_from_csv(file) == [i \in 1..Len(file.rows) |-> CategoryOfRow(file.rows[i])]

\* json.load of what json.dump wrote: None, integers, strings and lists of
\* integers come back as they were
load_categories_from_json(file) == file.categories

\* get_all_categories(use_csv), for files that exist
get_all_categories(use_csv) ==
    IF use_csv THEN load_categories_from_csv(csv_file)
    ELSE load_categories_from_json(json_file)

\* [cat for cat in categories if parent_id is None or parent_id == 0]
get_root_categories(categories) ==
    SelectSeq(categories, LAMBDA cat : cat.parent_id = None \/ cat.parent_id = PyInt(0))

\* [cat for cat in categories if cat.get('parent_id') == parent_id]
get_categories_by_parent(categories, parent_id) ==
    SelectSeq(categories, LAMBDA cat : cat.parent_id = PyInt(parent_id))

\* no reader function has been called
NoQuery ==
    [fn |-> "none", use_csv |-> FALSE, parent_id |-> 0, raised |-> FALSE, result |-> <<>>]

\* the service answers nothing
NoCatalog == [t \in {SearchTerms[i] : i \in 1..Len(SearchTerms)} |-> {}]

\* what the service may answer: any set of ids for each term
Catalogs == [{SearchTerms[i] : i \in 1..Len(SearchTerms)} -> SUBSET (1..MaxIds)]

\* no run of the fetcher has started: no files, no tokens seen
FetcherStart(catalogs) ==
    /\ catalog \in catalogs
    /\ tokens = 0
    /\ progress_file = NoProgressFile
    /\ json_file = NoCategoriesFile
    /\ csv_file = NoCsvFile
    /\ fpc = "idle"
    /\ batch_size = DefaultBatchSize
    /\ progress = NoProgress
    /\ remaining_terms = <<>>
    /\ term_i = 1
    /\ new_categories = <<>>
    /\ detail_i = 1
    /\ detailed_categories = <<>>
    /\ returned = <<>>
    /\ outcome = "none"

RECURSIVE SortedSeq(_)
\* the elements of a set of integers, ascending
SortedSeq(S) ==
    IF S = {} THEN <<>>
    ELSE LET x == CHOOSE x \in S : \A y \in S : x <= y
         IN  <<x>> \o SortedSeq(S \ {x})

Name_A == PyStr(<<65>>)

\* hierarchy inputs: categories 1..n for n <= N, each with any parent (absent
\* or one of 1..N, an id outside the data when n < N) and any declared children
GraphRecs(i, N) ==
    {Flat(PyInt(i), Name_A, p, PyList(SortedSeq(S)), PyInt(0), PyInt(0)) :
        p \in {None} \cup {PyInt(j) : j \in 1..N}, S \in SUBSET (1..N)}
GraphInputsOf(N) ==
    UNION {{r \in [1..n -> UNION {GraphRecs(i, N) : i \in 1..n}] :
                \A i \in 1..n : r[i].category_id = PyInt(i)} : n \in 0..N}
GraphInputs == GraphInputsOf(MaxCats)

StartOf(inputs, catalogs) ==
    /\ raw \in inputs
    /\ phase = "input"
    /\ normalized = <<>>
    /\ root_categories = <<>>
    /\ children_map = <<>>
    /\ rootIdx = 1
    /\ nodes = <<>>
    /\ tree = <<>>
    /\ visited = {}
    /\ stack = <<>>
    /\ stats = EmptyStats
    /\ run = 1
    /\ first = EmptyStats
    /\ FetcherStart(catalogs)
    /\ rendered = "none"
    /\ lines = <<>>
    /\ html = [stats |-> <<>>, tree |-> <<>>]
    /\ query = NoQuery

Start(inputs) == StartOf(inputs, {NoCatalog})

Init == Start(GraphInputs)

\* field-shape inputs: up to MaxRecs raw records, each varying one group of
\* fields over the types the loop body distinguishes
Name_N == PyStr(<<78>>)
Name_C == PyStr(<<67>>)
Str_x == PyStr(<<120>>)
Str_7 == PyStr(<<55>>)
Shape(name, nm, parent, children, count, depth) ==
    [category_id |-> Absent, name |-> name, nm |-> nm, parent_id |-> parent,
     children_ids |-> children, product_count |-> count, depth |-> depth]
Plain == Shape(Name_A, NoDict, Absent, Absent, Absent, Absent)
Nested == [Plain EXCEPT !.name = PyDict]
NameShapes ==
    {[Plain EXCEPT !.name = n] : n \in {Absent, None, PyStr(<<>>), Name_A, PyInt(5)}}
    \cup {[Nested EXCEPT !.nm.name = a, !.nm.contextFreeName = b, !.nm.catId = c] :
            a \in {Absent, PyStr(<<>>), Name_N, PyInt(5)}, b \in {Absent, Name_C},
            c \in {Absent, PyInt(7)}}
ParentShapes ==
    {[r EXCEPT !.parent_id = p, !.nm.parent = q] :
        r \in {Plain, Nested}, q \in {Absent, PyInt(2)},
        p \in {Absent, None, PyInt(0), PyInt(1), PyInt(2), PyInt(3), PyList(<<1>>)}}
ChildrenShapes ==
    {[r EXCEPT !.children_ids = c, !.nm.children = d, !.parent_id = p] :
        r \in {Plain, Nested}, d \in {Absent, PyList(<<1>>), PyInt(2), PyInt(0)},
        c \in {Absent, None, PyList(<<>>), PyList(<<2>>), PyList(<<2, 2>>), Str_x, PyInt(0)},
        p \in {Absent, PyInt(1)}}
CountShapes ==
    {[r EXCEPT !.product_count = c, !.nm.productCount = d, !.parent_id = p] :
        r \in {Plain, Nested}, d \in {Absent, PyInt(4), PyInt(0 - 2)},
        c \in {Absent, None, PyInt(0), PyInt(3), PyInt(0 - 1), Str_7, Str_x},
        p \in {Absent, PyInt(1)}}
DepthShapes ==
    {[r EXCEPT !.depth = d, !.nm.isBrowseNode = b] :
        r \in {Plain, Nested}, d \in {Absent, PyInt(2), None}, b \in {Absent, PyBool(TRUE)}}
\* a plain record carries no nested mapping
Shapes ==
    {r \in NameShapes \cup ParentShapes \cup ChildrenShapes \cup CountShapes \cup DepthShapes :
        r.name.t = "dict" \/ r.nm = NoDict}
WithId(r, id) == [r EXCEPT !.category_id = id]
FirstIds == {PyInt(1)}
OtherIds == {None, PyInt(0), PyInt(1), PyInt(2)}
ShapeInputs ==
    UNION {{r \in [1..n -> {WithId(x, id) : x \in Shapes, id \in FirstIds \cup OtherIds}] :
                n > 1 => r[1].category_id \in FirstIds} : n \in 1..MaxRecs}

InitNorm == Start(ShapeInputs)

\* cat_dict = normalize_category_data(categories)
Normalize ==
    /\ phase = "input"
    /\ IF NormalizeRaises(raw)
       THEN phase' = "raised" /\ UNCHANGED normalized
       ELSE phase' = "normalized" /\ normalized' = normalize_category_data(raw)
    /\ UNCHANGED <<callerVars, fetchVars, renderVars, readerVars>>
    /\ UNCHANGED <<raw, root_categories, children_map, rootIdx, nodes, tree, visited,
                   stack, stats>>

\* build_category_tree: the loop that finds the roots and fills children_map
ScanRoots ==
    /\ phase = "normalized"
    /\ IF \E i \in 1..Len(normalized) : ParentRaises(normalized[i].val)
       THEN phase' = "raised" /\ UNCHANGED <<root_categories, children_map>>
       ELSE /\ phase' = "building"
            /\ root_categories' = RootsFrom(normalized, 1, <<>>, {})
            /\ children_map' =
                  [p \in {normalized[i].val.parent_id :
                             i \in {j \in 1..Len(normalized) :
                                       ~IsRootCat(normalized[j].val, normalized)}}
                     |-> ChildrenMapFrom(normalized, 1, p)]
    /\ UNCHANGED <<callerVars, fetchVars, renderVars, readerVars>>
    /\ UNCHANGED <<raw, normalized, rootIdx, nodes, tree, visited, stack, stats>>

\* node = build_node(root_id, 0): a fresh visited set, the node dict, the
\* candidate children
StartRoot ==
    /\ phase = "building"
    /\ stack = <<>>
    /\ rootIdx <= Len(root_categories)
    /\ LET cat_id == root_categories[rootIdx]
           cat == Lookup(normalized, cat_id)
           fresh == FreshVisited(visited)
       IN  IF AlreadyVisited(cat_id, fresh)
           THEN /\ rootIdx' = rootIdx + 1
                /\ visited' = fresh
                /\ UNCHANGED <<nodes, stack>>
           ELSE /\ visited' = Visit(fresh, cat_id)
                /\ nodes' = Append(nodes, NewNode(cat_id, cat, 0))
                /\ stack' = <<[node |-> Len(nodes) + 1, level |-> 0,
                               pending |-> AllChildren(cat_id, cat, children_map)]>>
                /\ UNCHANGED rootIdx
    /\ UNCHANGED <<callerVars, fetchVars, renderVars, readerVars>>
    /\ UNCHANGED <<raw, phase, normalized, root_categories, children_map, tree, stats>>

\* one pass of `for child_id in all_children`, in any order of the set: a
\* child that passes the test is built by build_node(child_id, level + 1,
\* visited), which returns None at once for a visited or unknown id; a call
\* beyond the recursion limit raises
VisitChild ==
    /\ phase = "building"
    /\ stack # <<>>
    /\ LET top == stack[Len(stack)]
       IN  \E child_id \in top.pending :
             LET rest == [stack EXCEPT ![Len(stack)].pending = @ \ {child_id}]
             IN  IF ~CallGuard(child_id, normalized, visited)
                 THEN /\ stack' = rest
                      /\ UNCHANGED <<phase, visited, nodes>>
                 ELSE IF Len(stack) >= RecursionLimit
                 THEN /\ phase' = "raised"
                      /\ UNCHANGED <<stack, visited, nodes>>
                 ELSE IF AlreadyVisited(child_id, visited)
                 THEN /\ stack' = rest
                      /\ UNCHANGED <<phase, visited, nodes>>
                 ELSE IF child_id \notin Keys(normalized)
                 THEN /\ stack' = rest
                      /\ visited' = Visit(visited, child_id)
                      /\ UNCHANGED <<phase, nodes>>
                 ELSE LET cat == Lookup(normalized, child_id)
                      IN  /\ visited' = Visit(visited, child_id)
                          /\ nodes' = Append(nodes, NewNode(child_id, cat, top.level + 1))
                          /\ stack' = Append(rest,
                                 [node |-> Len(nodes) + 1, level |-> top.level + 1,
                                  pending |-> AllChildren(child_id, cat, children_map)])
                          /\ UNCHANGED phase
    /\ UNCHANGED <<callerVars, fetchVars, renderVars, readerVars>>
    /\ UNCHANGED <<raw, normalized, root_categories, children_map, rootIdx, tree, stats>>

\* return node: the caller appends it to its own children, or to the forest
Return ==
    /\ phase = "building"
    /\ stack # <<>>
    /\ stack[Len(stack)].pending = {}
    /\ LET node == stack[Len(stack)].node
           callers == SubSeq(stack, 1, Len(stack) - 1)
       IN  /\ stack' = callers
           /\ IF callers = <<>>
              THEN /\ tree' = Append(tree, node)
                   /\ rootIdx' = rootIdx + 1
                   /\ UNCHANGED nodes
              ELSE /\ nodes' = [nodes EXCEPT ![callers[Len(callers)].node].children =
                                                   Append(@, node)]
                   /\ UNCHANGED <<tree, rootIdx>>
    /\ UNCHANGED <<callerVars, fetchVars, renderVars, readerVars>>
    /\ UNCHANGED <<raw, phase, normalized, root_categories, children_map, visited, stats>>

\* the forest is complete: the statistics loop of analyze_categories
Aggregate ==
    /\ phase = "building"
    /\ stack = <<>>
    /\ rootIdx > Len(root_categories)
    /\ IF StatsRaises(normalized)
       THEN phase' = "raised" /\ UNCHANGED stats
       ELSE /\ phase' = "done"
            /\ stats' = StatsFrom(normalized, 1,
                            [FreshStats(stats) EXCEPT !.total_categories = Len(normalized)])
    /\ UNCHANGED <<callerVars, fetchVars, renderVars, readerVars>>
    /\ UNCHANGED <<raw, normalized, root_categories, children_map, rootIdx, nodes, tree,
                   visited, stack>>

Next == Normalize \/ ScanRoots \/ StartRoot \/ VisitChild \/ Return \/ Aggregate

Spec == Init /\ [][Next]_vars

SpecNorm == InitNorm /\ [][Next]_vars

\* the caller hands the same list object to analyze_categories once more: the
\* locals of the first call are gone, its returned statistics are kept
Rerun ==
    /\ phase = "done"
    /\ run = 1
    /\ run' = 2
    /\ first' = stats
    /\ phase' = "input"
    /\ normalized' = <<>>
    /\ root_categories' = <<>>
    /\ children_map' = <<>>
    /\ rootIdx' = 1
    /\ nodes' = <<>>
    /\ tree' = <<>>
    /\ visited' = {}
    /\ stack' = <<>>
    /\ UNCHANGED <<raw, stats, fetchVars, renderVars, readerVars>>

NextTwice == Next \/ Rerun

SpecTwice == InitNorm /\ [][NextTwice]_vars

\* analyze_categories is straight-line sequential code: it keeps running
\* until it returns or raises
InitLive == Start(GraphInputsOf(LiveCats))

LiveSpec == InitLive /\ [][Next]_vars /\ WF_vars(Next)

\* --------------------------------------------------- main of the analyzer
\* print_tree_text(tree, OUTPUT_TREE_FILE), called on what analyze_categories
\* returned
PrintTreeText ==
    /\ phase = "done"
    /\ rendered = "none"
    /\ rendered' = "text"
    /\ lines' = print_tree_text(nodes, tree)
    /\ nodes' = [i \in 1..Len(nodes) |-> NodeAfterRender(nodes[i])]
    /\ UNCHANGED <<raw, phase, normalized, root_categories, children_map, rootIdx, tree,
                   visited, stack, stats, html>>
    /\ UNCHANGED <<callerVars, fetchVars, readerVars>>

\* create_html_tree(tree, stats, OUTPUT_HTML_FILE), called after it
CreateHtmlTree ==
    /\ phase = "done"
    /\ rendered = "text"
    /\ rendered' = "html"
    /\ html' = [stats |-> HtmlStats(stats), tree |-> HtmlRoots(nodes, tree, 1)]
    /\ nodes' = [i \in 1..Len(nodes) |-> NodeAfterRender(nodes[i])]
    /\ UNCHANGED <<raw, phase, normalized, root_categories, children_map, rootIdx, tree,
                   visited, stack, stats, lines>>
    /\ UNCHANGED <<callerVars, fetchVars, readerVars>>

NextRender == Next \/ PrintTreeText \/ CreateHtmlTree

SpecRender == Init /\ [][NextRender]_vars

\* ------------------------------------------------------ the fetcher's runs
\* the locals of a run that has ended
RunOver ==
    /\ progress' = NoProgress
    /\ remaining_terms' = <<>>
    /\ term_i' = 1
    /\ new_categories' = <<>>
    /\ detail_i' = 1
    /\ detailed_categories' = <<>>
    /\ returned' = <<>>

\* main up to the call of fetch_categories_by_search_terms: the progress is
\* reset or loaded, and a run with too few tokens ends at once (a balance of
\* 0 stays 0 after the refreshing call of get_token_count)
StartRun ==
    /\ fpc = "idle"
    /\ \E reset \in BOOLEAN, bs \in BatchSizes :
         LET p == IF reset THEN NoProgress ELSE load_progress(progress_file)
         IN  /\ progress_file' = IF reset THEN NoProgressFile ELSE progress_file
             /\ batch_size' = bs
             /\ IF tokens < DefaultMinTokens
                THEN /\ outcome' = "not enough tokens"
                     /\ UNCHANGED <<fpc, progress, remaining_terms>>
                ELSE /\ outcome' = "running"
                     /\ fpc' = "search"
                     /\ progress' = p
                     /\ remaining_terms' = RemainingTerms(p)
    /\ UNCHANGED <<tokens, catalog, json_file, csv_file, term_i, new_categories, detail_i,
                   detailed_categories, returned>>
    /\ UNCHANGED <<analysisVars, callerVars, renderVars, readerVars>>

\* one pass of the search loop: with low tokens the function returns [] and
\* drops new_categories; a search that raises leaves the term uncompleted;
\* otherwise the new ids enter new_categories and fetched_category_ids, the
\* term is completed and the checkpoint is written
SearchTerm ==
    /\ fpc = "search"
    /\ term_i <= Len(remaining_terms)
    /\ IF LowTokens(tokens, DefaultMinTokens)
       THEN /\ fpc' = "returned"
            /\ returned' = <<>>
            /\ UNCHANGED <<tokens, progress_file, progress, term_i, new_categories>>
       ELSE \E ok \in BOOLEAN :
              IF ok
              THEN LET term == remaining_terms[term_i]
                       st == AddFound(SortedSeq(catalog[term]), 1,
                                      [new |-> new_categories,
                                       fetched |-> progress.fetched_category_ids])
                       p == [fetched_category_ids |-> st.fetched,
                             search_terms_completed |->
                                 Append(progress.search_terms_completed, term)]
                   IN  /\ tokens' = IF tokens > 0 THEN tokens - 1 ELSE 0
                       /\ new_categories' = st.new
                       /\ progress' = p
                       /\ progress_file' = save_progress(p)
                       /\ term_i' = term_i + 1
                       /\ UNCHANGED <<fpc, returned>>
              ELSE /\ term_i' = term_i + 1
                   /\ UNCHANGED <<tokens, progress_file, progress, new_categories, fpc,
                                  returned>>
    /\ UNCHANGED <<catalog, json_file, csv_file, batch_size, remaining_terms, detail_i,
                   detailed_categories, outcome>>
    /\ UNCHANGED <<analysisVars, callerVars, renderVars, readerVars>>

\* after the search loop: nothing new is returned as [], anything new goes
\* to the detail loop
EndSearch ==
    /\ fpc = "search"
    /\ term_i > Len(remaining_terms)
    /\ fpc' = IF new_categories = <<>> THEN "returned" ELSE "detail"
    /\ returned' = <<>>
    /\ UNCHANGED <<tokens, catalog, progress_file, json_file, csv_file, batch_size,
                   progress, remaining_terms, term_i, new_categories, detail_i,
                   detailed_categories, outcome>>
    /\ UNCHANGED <<analysisVars, callerVars, renderVars, readerVars>>

\* one pass of the detail loop: with low tokens the loop breaks, the
\* checkpoint is written and what was processed so far is returned;
\* otherwise the category is appended, with its details or, when the lookup
\* raises, as the search found it
DetailStep ==
    /\ fpc = "detail"
    /\ detail_i <= Len(new_categories)
    /\ IF LowTokens(tokens, DefaultMinTokens)
       THEN /\ progress_file' = save_progress(progress)
            /\ returned' = detailed_categories
            /\ fpc' = "returned"
            /\ UNCHANGED <<tokens, detail_i, detailed_categories>>
       ELSE \E ok \in BOOLEAN :
              /\ detailed_categories' =
                    Append(detailed_categories,
                           IF ok THEN DetailedCategory(new_categories[detail_i])
                           ELSE new_categories[detail_i])
              /\ tokens' = IF ok /\ tokens > 0 THEN tokens - 1 ELSE tokens
              /\ progress_file' = IF ok /\ detail_i % batch_size = 0
                                  THEN save_progress(progress) ELSE progress_file
              /\ detail_i' = detail_i + 1
              /\ UNCHANGED <<fpc, returned>>
    /\ UNCHANGED <<catalog, json_file, csv_file, batch_size, progress, remaining_terms,
                   term_i, new_categories, outcome>>
    /\ UNCHANGED <<analysisVars, callerVars, renderVars, readerVars>>

\* after the detail loop: the final checkpoint and the return
EndDetail ==
    /\ fpc = "detail"
    /\ detail_i > Len(new_categories)
    /\ progress_file' = save_progress(progress)
    /\ returned' = detailed_categories
    /\ fpc' = "returned"
    /\ UNCHANGED <<tokens, catalog, json_file, csv_file, batch_size, progress,
                   remaining_terms, term_i, new_categories, detail_i,
                   detailed_categories, outcome>>
    /\ UNCHANGED <<analysisVars, callerVars, renderVars, readerVars>>

\* the rest of main: what was returned is appended to both files, and the
\* closing message depends on what was returned and on the tokens left
SaveResults ==
    /\ fpc = "returned"
    /\ IF returned # <<>>
       THEN /\ json_file' = save_to_json(returned, json_file, TRUE)
            /\ csv_file' = save_to_csv(returned, csv_file, TRUE)
            /\ outcome' = IF tokens < DefaultMinTokens THEN "saved, low tokens"
                          ELSE "saved, run again"
       ELSE /\ outcome' = IF tokens < DefaultMinTokens THEN "nothing new, low tokens"
                          ELSE "all fetched"
            /\ UNCHANGED <<json_file, csv_file>>
    /\ fpc' = "idle"
    /\ RunOver
    /\ UNCHANGED <<tokens, catalog, progress_file, batch_size>>
    /\ UNCHANGED <<analysisVars, callerVars, renderVars, readerVars>>

\* between two runs the service refills the tokens
Refill ==
    /\ fpc = "idle"
    /\ tokens < MaxTokens
    /\ \E t \in (tokens + 1)..MaxTokens : tokens' = t
    /\ UNCHANGED <<catalog, progress_file, json_file, csv_file, fpc, batch_size, progress,
                   remaining_terms, term_i, new_categories, detail_i,
                   detailed_categories, returned, outcome>>
    /\ UNCHANGED <<analysisVars, callerVars, renderVars, readerVars>>

NextFetch ==
    StartRun \/ SearchTerm \/ EndSearch \/ DetailStep \/ EndDetail \/ SaveResults \/ Refill

InitFetch == StartOf({<<>>}, Catalogs)

SpecFetch == InitFetch /\ [][NextFetch]_vars

\* ------------------------------------------------- the readers of the cache
\* the file a reader function opens is missing: FileNotFoundError
CacheMissing(use_csv) == IF use_csv THEN ~csv_file.exists ELSE ~json_file.exists

\* get_root_categories(use_csv), called by a program that reads the cache
GetRootCategories ==
    /\ \E use_csv \in BOOLEAN :
         query' = [fn |-> "get_root_categories", use_csv |-> use_csv, parent_id |-> 0,
                   raised |-> CacheMissing(use_csv),
                   result |-> IF CacheMissing(use_csv) THEN <<>>
                              ELSE get_root_categories(get_all_categories(use_csv))]
    /\ UNCHANGED <<analysisVars, callerVars, fetchVars, renderVars>>

\* get_categories_by_parent(parent_id, use_csv)
GetCategoriesByParent ==
    /\ \E use_csv \in BOOLEAN, parent_id \in 0..MaxIds :
         query' = [fn |-> "get_categories_by_parent", use_csv |-> use_csv,
                   parent_id |-> parent_id, raised |-> CacheMissing(use_csv),
                   result |-> IF CacheMissing(use_csv) THEN <<>>
                              ELSE get_categories_by_parent(get_all_categories(use_csv),
                                                            parent_id)]
    /\ UNCHANGED <<analysisVars, callerVars, fetchVars, renderVars>>

NextCache == NextFetch \/ GetRootCategories \/ GetCategoriesByParent

SpecCache == InitFetch /\ [][NextCache]_vars

\* ------------------------------------------------------------------ claims
Roles == {"Root Category", "Product Group", "Sub-category"}

\* the canonical map exists: normalisation has returned
Normalized == phase # "input" /\ ~NormalizeRaises(raw)

\* role of id k in stats.category_types
RoleOf(k) == Lookup(stats.category_types, k)

RECURSIVE Subtree(_)
\* arena positions of the nodes of the tree rooted at position i
Subtree(i) ==
    {i} \cup UNION {Subtree(nodes[i].children[k]) : k \in 1..Len(nodes[i].children)}

\* ids of the roots of the forest, in order
ForestRootIds == [k \in 1..Len(tree) |-> nodes[tree[k]].category_id]

\* the categories with no parent or a parent that is not a key
NoResolvableParent(item) ==
    item.val.parent_id = None \/ item.val.parent_id \notin Keys(normalized)

\* C1: the statistics returned by analyze_categories have root_categories +
\* product_groups + sub_categories = total_categories, total_categories is the
\* number of entries of the canonical map, and every canonical category is
\* classified as exactly one of the three roles.
C1_RoleCountsSumToTotal ==
    phase = "done" =>
        /\ stats.root_categories + stats.product_groups + stats.sub_categories
              = stats.total_categories
        /\ stats.total_categories = Cardinality(Keys(normalized))
        /\ \A i \in 1..Len(normalized) :
              /\ classify_category_type(normalized[i].val, normalized) \in Roles
              /\ RoleOf(normalized[i].key) \in Roles

C1_Witness ==
    /\ phase = "done"
    /\ stats.root_categories > 0
    /\ stats.product_groups > 0
    /\ stats.sub_categories > 0

\* C2: build_category_tree terminates on every canonical map, whatever
\* cycles children_ids and parent_id form, and no cycle makes it raise: every
\* run of the analysis reaches its return.
C2_BuildTerminates == <>(phase = "done")

\* the analysis has returned for a root that lists a child which lists the
\* root back and also lists itself
C2_Witness ==
    /\ phase = "done"
    /\ Len(tree) > 0
    /\ \E i, j \in 1..Len(normalized) :
          /\ i # j
          /\ normalized[i].key \in Range(root_categories)
          /\ normalized[j].key \in AllChildren(normalized[i].key, normalized[i].val, children_map)
          /\ normalized[i].key \in AllChildren(normalized[j].key, normalized[j].val, children_map)
          /\ normalized[j].key \in AllChildren(normalized[j].key, normalized[j].val, children_map)

\* C3: within the tree of any single root, every category id occurs in at
\* most one node.
C3_OncePerTree ==
    \A r \in Range(tree) \cup (IF stack = <<>> THEN {} ELSE {stack[1].node}) :
        \A i, j \in Subtree(r) :
            nodes[i].category_id = nodes[j].category_id => i = j

\* a finished tree holds a node with a candidate child that was not built
\* under it, because the traversal had reached that category before
C3_Witness ==
    /\ phase = "done"
    /\ \E r \in Range(tree) : \E i, j \in Subtree(r) :
          /\ i # j
          /\ j # r
          /\ nodes[j].category_id \in
                AllChildren(nodes[i].category_id, Lookup(normalized, nodes[i].category_id),
                            children_map)
          /\ j \notin Range(nodes[i].children)

\* C4: classify_category_type agrees with the reference rule: Root when
\* parent_id is absent or is not a key of the map, otherwise Product Group when
\* children_ids is non-empty, otherwise Sub-category.
C4_ClassifyMatchesRule ==
    phase \in {"building", "done"} =>
        \A i \in 1..Len(normalized) :
            classify_category_type(normalized[i].val, normalized) =
                IF NoResolvableParent(normalized[i]) THEN "Root Category"
                ELSE IF normalized[i].val.children_ids.v # <<>> THEN "Product Group"
                ELSE "Sub-category"

\* a root whose parent_id is a falsy value other than None, next to a product
\* group
C4_Witness ==
    /\ phase = "done"
    /\ \E i, j \in 1..Len(normalized) :
          /\ RoleOf(normalized[i].key) = "Root Category"
          /\ normalized[i].val.parent_id = PyInt(0)
          /\ RoleOf(normalized[j].key) = "Product Group"

\* C5: the roots of the forest are exactly the canonical categories with no
\* parent or with a parent_id that is not a key, once each and in the order of
\* the canonical map; the number of trees is root_categories and the root ids
\* are the ids classified Root.
C5_RootsOfForest ==
    phase = "done" =>
        LET expected == SelectSeq(normalized, NoResolvableParent)
        IN  /\ ForestRootIds = [k \in 1..Len(expected) |-> expected[k].key]
            /\ Len(tree) = stats.root_categories
            /\ Range(ForestRootIds) =
                  {k \in Keys(normalized) : RoleOf(k) = "Root Category"}

\* two roots, one of them by a parent_id outside the data, and a non-root
C5_Witness ==
    /\ phase = "done"
    /\ Len(tree) = 2
    /\ Len(normalized) = 2
    /\ \E i \in 1..Len(normalized) :
          /\ normalized[i].val.parent_id # None
          /\ normalized[i].key \in Range(ForestRootIds)

\* C6: when every category of a non-empty canonical map has a parent_id that
\* is a key of the map, the forest is empty, no node is created, and the
\* statistics report total_categories = size of the map and root_categories = 0.
C6_AllParentedEmptyForest ==
    (/\ phase = "done"
     /\ Len(normalized) > 0
     /\ \A i \in 1..Len(normalized) : normalized[i].val.parent_id \in Keys(normalized))
    => /\ tree = <<>>
       /\ nodes = <<>>
       /\ stats.total_categories = Len(normalized)
       /\ stats.root_categories = 0

\* the two-category cycle: each is the parent and a declared child of the other
C6_Witness ==
    /\ phase = "done"
    /\ Len(normalized) = 2
    /\ \A i \in 1..2 :
          /\ normalized[i].val.parent_id = normalized[3 - i].key
          /\ normalized[i].val.children_ids = PyList(<<normalized[3 - i].key.v[1]>>)

\* position of the last raw record with id k
LastIndex(k) ==
    CHOOSE j \in 1..Len(raw) :
        raw[j].category_id = k /\ \A l \in (j + 1)..Len(raw) : raw[l].category_id # k

\* C7: raw records with the same category_id leave one canonical record, and
\* every field of it is derived from the last of them alone.
C7_LastRecordWins ==
    /\ \A i, j \in 1..Len(normalized) : normalized[i].key = normalized[j].key => i = j
    /\ \A i \in 1..Len(normalized) :
          normalized[i].val = CanonOf(raw[LastIndex(normalized[i].key)])

\* two raw records with the same id whose names and product counts differ
C7_Witness ==
    /\ phase = "normalized"
    /\ Len(raw) = 2
    /\ raw[1].category_id = raw[2].category_id
    /\ Len(normalized) = 1
    /\ NameOf(raw[1]) # NameOf(raw[2])
    /\ CountOf(raw[1]) # CountOf(raw[2])
    /\ normalized[1].val.name = NameOf(raw[2])

\* C8: records without a resolvable (present and truthy) category_id are
\* dropped without an error; the keys of the canonical map are exactly the ids
\* of the other records, and each key is the category_id of its record.
C8_KeysAreResolvableIds ==
    /\ Normalized =>
          /\ Keys(normalized) =
                {raw[i].category_id : i \in {j \in 1..Len(raw) : Truthy(Get(raw[j].category_id))}}
          /\ \A i \in 1..Len(normalized) : normalized[i].key = normalized[i].val.category_id
    /\ (phase # "input" /\ \A i \in 1..Len(raw) : ~Truthy(Get(raw[i].category_id)))
          => phase # "raised" /\ normalized = <<>>

\* a record with id 0 is dropped next to a record that is kept
C8_Witness ==
    /\ phase = "normalized"
    /\ Len(raw) = 2
    /\ raw[2].category_id = PyInt(0)
    /\ Len(normalized) = 1

\* C9: every canonical record has a name that is a non-empty string.
C9_NameNonEmptyString ==
    \A i \in 1..Len(normalized) :
        normalized[i].val.name.t = "str" /\ Len(normalized[i].val.name.v) > 0

\* C10: every canonical record has a product_count that is a non-negative
\* integer, 0 when the raw record supplies none.
C10_CountNonNegative ==
    \A i \in 1..Len(normalized) :
        /\ normalized[i].val.product_count.t = "int"
        /\ normalized[i].val.product_count.v[1] >= 0
        /\ LET cat == raw[LastIndex(normalized[i].key)]
           IN  (cat.product_count = Absent /\ cat.nm.productCount = Absent)
                   => normalized[i].val.product_count = PyInt(0)

\* C11: the core pipeline never raises, whatever the raw records hold.
C11_NeverRaises == phase # "raised"

\* C12: on an empty record list analyze_categories returns without raising,
\* with an empty forest, an empty canonical map, every counter 0 and an empty
\* category_types mapping.
C12_EmptyInput ==
    raw = <<>> =>
        /\ phase # "raised"
        /\ phase = "done" =>
              /\ tree = <<>>
              /\ nodes = <<>>
              /\ normalized = <<>>
              /\ stats.total_categories = 0
              /\ stats.root_categories = 0
              /\ stats.sub_categories = 0
              /\ stats.product_groups = 0
              /\ stats.categories_with_products = 0
              /\ stats.total_products = 0
              /\ stats.max_depth = 0
              /\ stats.category_types = <<>>

\* the analysis of the empty list has returned
C12_Witness == raw = <<>> /\ phase = "done"

\* children_ids declared on the canonical record of x
DeclaredChildren(x) == {PyInt(c) : c \in Range(Lookup(normalized, x).children_ids.v)}

\* the canonical categories whose parent_id is x
ImpliedChildren(x) == {k \in Keys(normalized) : Lookup(normalized, k).parent_id = x}

\* the canonical categories one child edge away from x
ChildEdge(x) == (DeclaredChildren(x) \cup ImpliedChildren(x)) \cap Keys(normalized)

RECURSIVE ReachableFrom(_)
\* the canonical categories reachable from the set S along child edges
ReachableFrom(S) ==
    LET T == S \cup UNION {ChildEdge(x) : x \in S}
    IN  IF T = S THEN S ELSE ReachableFrom(T)

\* the category ids of the tree rooted at arena position i
TreeIds(i) == {nodes[j].category_id : j \in Subtree(i)}

\* C14: the traversal guard is fresh for every root: a category reachable
\* from two roots appears in the tree of each of them.
C14_SharedAcrossTrees ==
    phase = "done" =>
        \A a, b \in 1..Len(tree) :
            a # b =>
                \A k \in ReachableFrom({ForestRootIds[a]}) \cap ReachableFrom({ForestRootIds[b]}) :
                    k \in TreeIds(tree[a]) /\ k \in TreeIds(tree[b])

\* a finished forest in which two trees hold the same category
C14_Witness ==
    /\ phase = "done"
    /\ \E a, b \in 1..Len(tree) : a # b /\ TreeIds(tree[a]) \cap TreeIds(tree[b]) # {}

\* C15: every root node has depth 0 and every child node has the depth of
\* its parent node plus one, whatever depth the canonical records carry.
C15_DepthIsTreeLevel ==
    /\ \A k \in 1..Len(tree) : nodes[tree[k]].depth = 0
    /\ stack # <<>> => nodes[stack[1].node].depth = 0
    /\ \A i \in 1..Len(nodes) :
          \A j \in 1..Len(nodes[i].children) :
              nodes[nodes[i].children[j]].depth = nodes[i].depth + 1
    /\ \A n \in 2..Len(stack) :
          nodes[stack[n].node].depth = nodes[stack[n - 1].node].depth + 1

\* a finished forest with a root and a child node whose canonical records
\* carry another depth than the node
C15_Witness ==
    /\ phase = "done"
    /\ \E k \in 1..Len(tree) :
          Lookup(normalized, nodes[tree[k]].category_id).depth # PyInt(0)
    /\ \E i \in 1..Len(nodes) :
          \E j \in 1..Len(nodes[i].children) :
              LET c == nodes[nodes[i].children[j]]
              IN  Lookup(normalized, c.category_id).depth # PyInt(c.depth)

\* C16: the category_id of every node is a key of the canonical map, and
\* the id of every child node of a node for x is among the declared
\* children_ids of x or the categories whose parent_id is x; a child id that
\* is no key of the canonical map gets no node and raises nothing.
C16_NodesFromCanon ==
    /\ \A i \in 1..Len(nodes) :
          /\ nodes[i].category_id \in Keys(normalized)
          /\ \A j \in 1..Len(nodes[i].children) :
                nodes[nodes[i].children[j]].category_id \in
                    DeclaredChildren(nodes[i].category_id)
                        \cup ImpliedChildren(nodes[i].category_id)
    /\ \A n \in 2..Len(stack) :
          nodes[stack[n].node].category_id \in
              DeclaredChildren(nodes[stack[n - 1].node].category_id)
                  \cup ImpliedChildren(nodes[stack[n - 1].node].category_id)

\* a finished forest with a node for a category that declares a child id
\* outside the canonical map, next to a node that has a child node
C16_Witness ==
    /\ phase = "done"
    /\ \E i \in 1..Len(nodes) :
          DeclaredChildren(nodes[i].category_id) \ Keys(normalized) # {}
    /\ \E i \in 1..Len(nodes) : nodes[i].children # <<>>

RECURSIVE SumOver(_, _)
\* the sum of f over the set S of arguments
SumOver(f, S) ==
    IF S = {} THEN 0
    ELSE LET x == CHOOSE x \in S : TRUE IN f[x] + SumOver(f, S \ {x})

\* product_count of the canonical categories, by position in the map
CountAt == [i \in 1..Len(normalized) |-> normalized[i].val.product_count.v[1]]

\* positions of the canonical categories that have products
WithProducts == {i \in 1..Len(normalized) : CountAt[i] > 0}

\* number of trees of the forest that hold a node for id k
TreesHolding(k) == Cardinality({a \in 1..Len(tree) : k \in TreeIds(tree[a])})

\* C17: categories_with_products is the number of canonical categories with
\* product_count > 0 and total_products the sum of their product_count, each
\* category counted once however many trees hold it.
C17_ProductsFromCanon ==
    phase = "done" =>
        /\ stats.categories_with_products = Cardinality(WithProducts)
        /\ stats.total_products = SumOver(CountAt, WithProducts)

\* finished statistics with a category with products that two trees hold
C17_Witness ==
    /\ phase = "done"
    /\ \E i \in WithProducts : TreesHolding(normalized[i].key) > 1

\* depth of the canonical categories, by position in the map
DepthAt == [i \in 1..Len(normalized) |-> normalized[i].val.depth.v[1]]

\* C18: max_depth is the largest depth carried on a canonical record (0 for
\* an empty map), not a level of the forest: records that declare no depth
\* give max_depth 0 however long their parent-child chain is.
C18_MaxDepthFromCanon ==
    phase = "done" =>
        /\ \A i \in 1..Len(normalized) : stats.max_depth >= DepthAt[i]
        /\ \/ stats.max_depth = 0
           \/ \E i \in 1..Len(normalized) : stats.max_depth = DepthAt[i]
        /\ (\A i \in 1..Len(raw) : raw[i].depth = Absent) => stats.max_depth = 0

\* finished statistics with max_depth 0 next to a node on level 1
C18_Witness ==
    /\ phase = "done"
    /\ \A i \in 1..Len(raw) : raw[i].depth = Absent
    /\ stats.max_depth = 0
    /\ \E i \in 1..Len(nodes) : nodes[i].depth = 1

\* C19: category_types has exactly one entry per key of the canonical map,
\* in the order of the map, and the role counters count these entries: a
\* category that no tree holds has a role and is counted too.
C19_RolePerCanonKey ==
    phase = "done" =>
        /\ Len(stats.category_types) = Len(normalized)
        /\ \A i \in 1..Len(normalized) :
              /\ stats.category_types[i].key = normalized[i].key
              /\ stats.category_types[i].val \in Roles
        /\ stats.root_categories =
              Cardinality({i \in 1..Len(normalized) :
                              stats.category_types[i].val = "Root Category"})
        /\ stats.sub_categories =
              Cardinality({i \in 1..Len(normalized) :
                              stats.category_types[i].val = "Sub-category"})
        /\ stats.product_groups =
              Cardinality({i \in 1..Len(normalized) :
                              stats.category_types[i].val = "Product Group"})

\* finished statistics for a map with a category that no tree holds
C19_Witness ==
    /\ phase = "done"
    /\ \E k \in Keys(normalized) : TreesHolding(k) = 0 /\ RoleOf(k) \in Roles

SavedIds == IdsOf(json_file.categories)

\* C20: once a resumed run with enough tokens has every search term
\* completed and reports that all categories have been fetched, every id of
\* the checkpoint's fetched_category_ids is in the categories file.
C20_CheckpointIdsSaved ==
    (/\ fpc = "idle"
     /\ outcome = "all fetched"
     /\ RemainingTerms(load_progress(progress_file)) = <<>>)
        => progress_file.data.fetched_category_ids \subseteq SavedIds

RawOf(i) == raw[LastIndex(normalized[i].key)]

\* "Category {id}" for the raw record r
Synthesized(r) == PyStr(CategoryPrefix \o StrOf(r.category_id))

\* C22 as stated: a string name is kept; a nested-mapping name gives its name
\* key if present, else its contextFreeName key, else its catId key, else
\* "Category {id}"; a name of another type gives "Category {id}".
C22_NameByPresence ==
    \A i \in 1..Len(normalized) :
        LET r == RawOf(i)
        IN  normalized[i].val.name =
                IF r.name.t = "str" THEN r.name
                ELSE IF r.name.t = "dict"
                THEN IF r.nm.name # Absent THEN r.nm.name
                     ELSE IF r.nm.contextFreeName # Absent THEN r.nm.contextFreeName
                     ELSE IF r.nm.catId # Absent THEN r.nm.catId
                     ELSE Synthesized(r)
                ELSE Synthesized(r)

\* C22, amended: a key of the nested mapping is taken only when its value is
\* truthy; a key that is present with an empty or zero value is passed over
\* like an absent one.
C22_NameByTruthiness ==
    \A i \in 1..Len(normalized) :
        LET r == RawOf(i)
        IN  normalized[i].val.name =
                IF r.name.t = "str" THEN r.name
                ELSE IF r.name.t = "dict"
                THEN IF Truthy(Get(r.nm.name)) THEN r.nm.name
                     ELSE IF Truthy(Get(r.nm.contextFreeName)) THEN r.nm.contextFreeName
                     ELSE IF Truthy(Get(r.nm.catId)) THEN r.nm.catId
                     ELSE Synthesized(r)
                ELSE Synthesized(r)

\* a nested mapping whose name key is present and empty, resolved to its
\* contextFreeName
C22_Witness ==
    \E i \in 1..Len(normalized) :
        /\ RawOf(i).name.t = "dict"
        /\ RawOf(i).nm.name = PyStr(<<>>)
        /\ normalized[i].val.name = Name_C

AsList(x) == IF x.t = "list" THEN x ELSE PyList(<<x.v[1]>>)

\* C24 as stated: a non-empty top-level children_ids list is kept; when the
\* field is absent or empty and the name is a nested mapping with a children
\* key, that value is used, a scalar as a one-element list; every other case
\* gives the empty list.
C24_ChildrenByPresence ==
    \A i \in 1..Len(normalized) :
        LET r == RawOf(i)
        IN  normalized[i].val.children_ids =
                IF r.children_ids.t = "list" /\ r.children_ids.v # <<>> THEN r.children_ids
                ELSE IF /\ r.children_ids \in {Absent, None, PyList(<<>>)}
                        /\ r.name.t = "dict"
                        /\ r.nm.children # Absent
                THEN AsList(r.nm.children)
                ELSE PyList(<<>>)

\* C24, amended: the nested children are used whenever the top-level field
\* is falsy (absent, None, empty, 0), not a list included, and only when the
\* nested value is truthy itself.
C24_ChildrenByTruthiness ==
    \A i \in 1..Len(normalized) :
        LET r == RawOf(i)
        IN  normalized[i].val.children_ids =
                IF r.children_ids.t = "list" /\ r.children_ids.v # <<>> THEN r.children_ids
                ELSE IF /\ ~Truthy(Get(r.children_ids))
                        /\ r.name.t = "dict"
                        /\ Truthy(Get(r.nm.children))
                THEN AsList(r.nm.children)
                ELSE PyList(<<>>)

\* a record whose top-level children_ids is 0, resolved to the children of
\* its nested mapping
C24_Witness ==
    \E i \in 1..Len(normalized) :
        /\ RawOf(i).children_ids = PyInt(0)
        /\ RawOf(i).nm.children = PyInt(2)
        /\ normalized[i].val.children_ids = PyList(<<2>>)

RECURSIVE PreOrderOf(_)
\* the arena positions of the forest in depth-first pre-order: the first of
\* the positions still to go, then its children, then the rest
PreOrderOf(todo) ==
    IF todo = <<>> THEN <<>>
    ELSE <<Head(todo)>> \o PreOrderOf(nodes[Head(todo)].children \o Tail(todo))

\* the node lines of the text output, in order
NodeLines == SelectSeq(lines, LAMBDA l : l.kind = "node")

\* the node at arena position i is a root of the forest
IsRootNode(i) == i \in Range(tree)

\* the arena position of the parent node of a node that is no root
ParentNode(i) == CHOOSE j \in 1..Len(nodes) : i \in Range(nodes[j].children)

\* the node at arena position i is the last of its sibling list
IsLastSibling(i) ==
    IF IsRootNode(i) THEN i = tree[Len(tree)]
    ELSE i = nodes[ParentNode(i)].children[Len(nodes[ParentNode(i)].children)]

\* C25: print_tree_text emits one line per node of the forest in depth-first
\* pre-order; the line of a node has the connector "└── " exactly when the
\* node is the last of its sibling list and "├── " otherwise; the prefix of a
\* child line is the prefix of its parent's line plus four spaces when the
\* parent is a last sibling and plus "│   " otherwise, so a node on level d
\* has a prefix of 4*d characters.
C25_TextLines ==
    rendered # "none" =>
        LET P == PreOrderOf(tree)
            NL == NodeLines
            LineOf(i) == CHOOSE k \in 1..Len(P) : P[k] = i
        IN  /\ Len(NL) = Len(P)
            /\ Len(lines) = 5 + Len(P) + (IF Len(tree) > 1 THEN Len(tree) - 1 ELSE 0)
            /\ \A k \in 1..Len(P) :
                  /\ NL[k].cat_id = StrOf(nodes[P[k]].category_id)
                  /\ NL[k].connector =
                        IF IsLastSibling(P[k]) THEN <<9492, 9472, 9472, 32>>
                        ELSE <<9500, 9472, 9472, 32>>
                  /\ NL[k].prefix =
                        IF IsRootNode(P[k]) THEN <<>>
                        ELSE NL[LineOf(ParentNode(P[k]))].prefix \o
                                 (IF IsLastSibling(ParentNode(P[k])) THEN <<32, 32, 32, 32>>
                                  ELSE <<9474, 32, 32, 32>>)
                  /\ Len(NL[k].prefix) = 4 * nodes[P[k]].depth

\* a printed forest with a node on level 2 under a root that is not the last
\* root
C25_Witness ==
    /\ rendered # "none"
    /\ \E k \in 1..Len(NodeLines) :
          /\ NodeLines[k].prefix = <<9474, 32, 32, 32, 32, 32, 32, 32>>
          /\ NodeLines[k].connector = <<9492, 9472, 9472, 32>>
    /\ \E k \in 1..Len(NodeLines) : NodeLines[k].connector = <<9500, 9472, 9472, 32>>

C27_TreeIsReachableSet ==
    phase = "done" =>
        \A a \in 1..Len(tree) : TreeIds(tree[a]) = ReachableFrom({ForestRootIds[a]})

\* a finished tree in which one category is a child of two categories
C27_Witness ==
    /\ phase = "done"
    /\ \E a \in 1..Len(tree) :
          \E x, y \in TreeIds(tree[a]) :
              /\ x # y
              /\ \E k \in ChildEdge(x) \cap ChildEdge(y) : k \notin {x, y}

RECURSIVE ChainEnds(_, _)
\* following parent_id from k ends, within n steps, at a category with no
\* resolvable parent
ChainEnds(k, n) ==
    LET p == Lookup(normalized, k).parent_id
    IN  IF p = None \/ p \notin Keys(normalized) THEN TRUE
        ELSE IF n = 0 THEN FALSE
        ELSE ChainEnds(p, n - 1)

\* the ids that have a node in some tree of the forest
ForestIds == UNION {TreeIds(tree[a]) : a \in 1..Len(tree)}

\* C28: a canonical category whose parent chain ends at a category with no
\* resolvable parent is in some tree; a category in no tree has a parent
\* chain that runs into a cycle and is declared as a child by no category of
\* the forest.
C28_AcyclicAllInForest ==
    phase = "done" =>
        \A k \in Keys(normalized) :
            /\ ChainEnds(k, Len(normalized)) => k \in ForestIds
            /\ k \notin ForestIds =>
                  /\ ~ChainEnds(k, Len(normalized))
                  /\ \A x \in ForestIds : k \notin DeclaredChildren(x)

\* a finished forest with a tree of two levels, next to a category that a
\* cycle keeps out of the forest
C28_Witness ==
    /\ phase = "done"
    /\ \E i \in 1..Len(nodes) : nodes[i].depth = 1 /\ ChainEnds(nodes[i].category_id, Len(normalized))
    /\ \E k \in Keys(normalized) : k \notin ForestIds


\* the fields the round trip is said to keep
RoundTripFields(cat) ==
    <<cat.category_id, cat.parent_id, cat.children_ids, cat.product_count, cat.depth>>

\* the answer of the call in q had it read the other cache
OtherCacheAnswer(q) ==
    IF q.fn = "get_root_categories"
    THEN get_root_categories(get_all_categories(~q.use_csv))
    ELSE get_categories_by_parent(get_all_categories(~q.use_csv), q.parent_id)

\* C29: what save_to_csv wrote and load_categories_from_csv reads back has the
\* category_id, parent_id, children_ids, product_count and depth of what was
\* saved (the JSON cache holds the saved dicts), and get_root_categories and
\* get_categories_by_parent return the same categories from either cache
C29_CsvRoundTrip ==
    /\ [](json_file.exists /\ csv_file.exists =>
             LET saved == load_categories_from_json(json_file)
                 loaded == load_categories_from_csv(csv_file)
             IN  /\ Len(loaded) = Len(saved)
                 /\ \A i \in 1..Len(saved) :
                       RoundTripFields(loaded[i]) = RoundTripFields(saved[i]))
    /\ [][query' # query /\ json_file.exists /\ csv_file.exists =>
             IdsOf(query'.result) = IdsOf(OtherCacheAnswer(query'))]_vars

\* a category saved with parent_id None was asked for among the roots of the
\* CSV cache
C29_Witness ==
    /\ query.fn = "get_root_categories" /\ query.use_csv /\ ~query.raised
    /\ \E i \in 1..Len(json_file.categories) : json_file.categories[i].parent_id = None

====
